---- MODULE Spec2Model ----
(***************************************************************************)
(* A model of the structured-value core (log.Value, log.KeyValue) and of   *)
(* the attribute storage of the log record (inline slots plus an overflow  *)
(* slice) of opentelemetry-go.                                             *)
(*                                                                         *)
(* Go slices are modelled as slice headers (ptr, off, len, cap) over a     *)
(* heap of backing arrays, so that two slices sharing an array are         *)
(* distinguishable from two slices holding equal elements.                 *)
(***************************************************************************)
EXTENDS Integers, Sequences, FiniteSets, TLC

(***************************************************************************)
(* Bounds of the model.                                                    *)
(***************************************************************************)
\* Largest number of attributes passed to one AddAttributes/SetAttributes call.
MaxArgs == 6
\* Calls that would take a record beyond this many attributes are not made.
MaxLen == 8
\* Largest number of nodes (values, nested ones included) of a constructed Value.
MaxSize == 3
\* Largest unused capacity a newly allocated backing array may come with.
MaxSpare == 1
\* Number of backing arrays that can be live at once.
MaxArrays == 5
\* Width in bits of the machine word the model gives Value.num (64 in the
\* program): integers wrap at 2^WordBits, a float has one sign bit, two
\* exponent bits and WordBits - 3 mantissa bits.
WordBits == 4
\* Largest number of members of a List or Group built from the small members.
MaxMembers == 2

(***************************************************************************)
(* log.Value and log.KeyValue (src/log/value.go, second variant).          *)
(* A Value is the pair (num, any).  The dynamic type of any is kept in     *)
(* any.type; for a Kind it carries the kind in any.val, for the pointer    *)
(* types the backing storage the pointer refers to.                        *)
(***************************************************************************)
KindEmpty == "KindEmpty"
KindBool == "Bool"
KindFloat64 == "Float64"
KindInt64 == "Int64"
KindString == "String"
KindUint64 == "Uint64"
KindBytes == "Bytes"
KindList == "List"
KindGroup == "Group"

\* The zero Value: num 0 and a nil interface in any.
ZeroValue == [any |-> [type |-> "nil", val |-> <<>>], num |-> 0]

Kind(v) ==
    CASE v.any.type = "Kind" -> v.any.val
      [] v.any.type = "stringptr" -> KindString
      [] v.any.type = "bytesptr" -> KindBytes
      [] v.any.type = "listptr" -> KindList
      [] v.any.type = "groupptr" -> KindGroup
      [] OTHER -> KindEmpty

StringValue(value) == [any |-> [type |-> "stringptr", val |-> value], num |-> Len(value)]

BoolValue(v) == [any |-> [type |-> "Kind", val |-> KindBool], num |-> IF v THEN 1 ELSE 0]

BytesValue(v) == [any |-> [type |-> "bytesptr", val |-> v], num |-> Len(v)]

ListValue(vs) == [any |-> [type |-> "listptr", val |-> vs], num |-> Len(vs)]

\* v.group(): the slice of v.num key-values behind the groupptr.
group(v) == SubSeq(v.any.val, 1, v.num)

isEmptyGroup(v) ==
    IF Kind(v) # KindGroup THEN FALSE ELSE Len(group(v)) = 0

RECURSIVE countEmptyGroups(_)
countEmptyGroups(as) ==
    IF as = <<>> THEN 0
    ELSE (IF isEmptyGroup(Head(as).Value) THEN 1 ELSE 0) + countEmptyGroups(Tail(as))

\* The loop of GroupValue that copies the members that are not empty groups.
RECURSIVE removeEmptyGroups(_, _)
removeEmptyGroups(kvs, as2) ==
    IF kvs = <<>> THEN as2
    ELSE removeEmptyGroups(Tail(kvs),
             IF ~isEmptyGroup(Head(kvs).Value) THEN Append(as2, Head(kvs)) ELSE as2)

\* GroupValue that keeps every member.
GroupValueKeepAll(kvs) == [any |-> [type |-> "groupptr", val |-> kvs], num |-> Len(kvs)]

\* GroupValue that also drops the members with an empty key.
GroupValueDropNoKey(kvs) ==
    LET keep(a) == a.Key # "" /\ ~isEmptyGroup(a.Value)
        kept == SelectSeq(kvs, keep)
    IN  [any |-> [type |-> "groupptr", val |-> kept], num |-> Len(kept)]

GroupValue(kvs) ==
    LET kept == IF countEmptyGroups(kvs) > 0 THEN removeEmptyGroups(kvs, <<>>) ELSE kvs
    IN  [any |-> [type |-> "groupptr", val |-> kept], num |-> Len(kept)]

\* What a call yields: a panic, or the value it returns.
Panic == [panic |-> TRUE, ret |-> <<>>]

Return(x) == [panic |-> FALSE, ret |-> x]

\* v.Group(): panics unless the dynamic type of any is groupptr.
Value_Group(v) ==
    IF v.any.type = "groupptr" THEN Return(SubSeq(v.any.val, 1, v.num)) ELSE Panic

Empty(v) == Kind(v) = KindEmpty

\* KeyValue constructors.
KeyValue(key, value) == [Key |-> key, Value |-> value]
String(key, value) == KeyValue(key, StringValue(value))
Bool(key, v) == KeyValue(key, BoolValue(v))
Bytes(key, v) == KeyValue(key, BytesValue(v))
List(key, args) == KeyValue(key, ListValue(args))
Group(key, args) == KeyValue(key, GroupValue(args))

\* The zero KeyValue: empty key, zero Value.
ZeroKeyValue == KeyValue("", ZeroValue)

\* Invalid that looks at the key alone.
InvalidKeyOnly(a) == a.Key = ""

Invalid(a) == a.Key = "" \/ Empty(a.Value)

(***************************************************************************)
(* Numbers.  Value.num is a word of WordBits bits.  A float is modelled by *)
(* its IEEE-754 bit pattern: sign, two exponent bits (bias 1), mantissa.   *)
(***************************************************************************)
Word == 2 ^ WordBits

\* The int64 range and the conversions uint64(v) and int64(u).
MinInt64 == -(2 ^ (WordBits - 1))

MaxInt64 == 2 ^ (WordBits - 1) - 1

ToUint64(v) == v % Word

ToInt64(u) == IF u > MaxInt64 THEN u - Word ELSE u

MantBits == WordBits - 3

Mantissa(bits) == bits % (2 ^ MantBits)

Exponent(bits) == (bits \div (2 ^ MantBits)) % 4

SignBit(bits) == bits \div (2 ^ (WordBits - 1))

IsNaN(bits) == Exponent(bits) = 3 /\ Mantissa(bits) # 0

IsInf(bits) == Exponent(bits) = 3 /\ Mantissa(bits) = 0

IsZero(bits) == Exponent(bits) = 0 /\ Mantissa(bits) = 0

\* The == of two float64: a NaN equals nothing, the two zeros equal each
\* other, and otherwise the operands are equal when their patterns are.
FloatEq(x, y) == ~IsNaN(x) /\ ~IsNaN(y) /\ (x = y \/ (IsZero(x) /\ IsZero(y)))

Int64Value(v) == [any |-> [type |-> "Kind", val |-> KindInt64], num |-> ToUint64(v)]

IntValue(v) == Int64Value(v)

\* Uint64Value that stores the kind of Int64Value.
Uint64ValueAsInt64(v) == Int64Value(v)

Uint64Value(v) == [any |-> [type |-> "Kind", val |-> KindUint64], num |-> v]

\* v is the bit pattern of the float; math.Float64bits yields it.
Float64Value(v) == [any |-> [type |-> "Kind", val |-> KindFloat64], num |-> v]

Int64(key, value) == KeyValue(key, Int64Value(value))

\* The constructor Int of the program.
IntKeyValue(key, value) == Int64(key, value)

Uint64(key, v) == KeyValue(key, Uint64Value(v))

Float64(key, v) == KeyValue(key, Float64Value(v))

(***************************************************************************)
(* Accessors.                                                              *)
(***************************************************************************)
str(v) == v.any.val

bool(v) == v.num = 1

float(v) == v.num

bytes(v) == SubSeq(v.any.val, 1, v.num)

list(v) == SubSeq(v.any.val, 1, v.num)

Value_Int64(v) == IF Kind(v) # KindInt64 THEN Panic ELSE Return(ToInt64(v.num))

Value_Uint64(v) == IF Kind(v) # KindUint64 THEN Panic ELSE Return(v.num)

\* Bool without the check of the kind.
Value_BoolNoCheck(v) == Return(bool(v))

Value_Bool(v) == IF Kind(v) # KindBool THEN Panic ELSE Return(bool(v))

Value_Float64(v) == IF Kind(v) # KindFloat64 THEN Panic ELSE Return(float(v))

Value_Bytes(v) ==
    IF v.any.type = "bytesptr" THEN Return(SubSeq(v.any.val, 1, v.num)) ELSE Panic

Value_List(v) ==
    IF v.any.type = "listptr" THEN Return(SubSeq(v.any.val, 1, v.num)) ELSE Panic

\* A Go value boxed in an any: its dynamic type and the value.
Box(type, x) == [type |-> type, val |-> x]

Nil == Box("nil", <<>>)

\* Any with the Int64 case returning the stored number unconverted.
Value_AnyNoSign(v) ==
    CASE Kind(v) = KindGroup -> Return(Box("[]KeyValue", group(v)))
      [] Kind(v) = KindList -> Return(Box("[]Value", list(v)))
      [] Kind(v) = KindInt64 -> Return(Box("int64", v.num))
      [] Kind(v) = KindUint64 -> Return(Box("uint64", v.num))
      [] Kind(v) = KindFloat64 -> Return(Box("float64", float(v)))
      [] Kind(v) = KindString -> Return(Box("string", str(v)))
      [] Kind(v) = KindBool -> Return(Box("bool", bool(v)))
      [] Kind(v) = KindBytes -> Return(Box("[]byte", bytes(v)))
      [] Kind(v) = KindEmpty -> Return(Nil)
      [] OTHER -> Panic

Value_Any(v) ==
    CASE Kind(v) = KindGroup -> Return(Box("[]KeyValue", group(v)))
      [] Kind(v) = KindList -> Return(Box("[]Value", list(v)))
      [] Kind(v) = KindInt64 -> Return(Box("int64", ToInt64(v.num)))
      [] Kind(v) = KindUint64 -> Return(Box("uint64", v.num))
      [] Kind(v) = KindFloat64 -> Return(Box("float64", float(v)))
      [] Kind(v) = KindString -> Return(Box("string", str(v)))
      [] Kind(v) = KindBool -> Return(Box("bool", bool(v)))
      [] Kind(v) = KindBytes -> Return(Box("[]byte", bytes(v)))
      [] Kind(v) = KindEmpty -> Return(Nil)
      [] OTHER -> Panic

(***************************************************************************)
(* Equal.                                                                  *)
(***************************************************************************)
\* Whether s1 and s2 have the same length and eq holds of every pair of
\* elements at the same index; eq[i] is the result of the comparison function
\* on s1[i] and s2[i].
sliceEqualFunc(s1, s2, eq) ==
    Len(s1) = Len(s2) /\ \A i \in 1..Len(s1) : eq[i]

bytesEqual(a, b) == a = b

RECURSIVE Equal(_, _)
KeyValue_Equal(a, b) == a.Key = b.Key /\ Equal(a.Value, b.Value)

\* Equal without the comparison of the two kinds: the switch on v's kind alone.
EqualNoKind(v, w) ==
    LET k1 == Kind(v)
    IN  CASE k1 \in {KindInt64, KindUint64, KindBool, KindFloat64} -> v.num = w.num
          [] k1 = KindEmpty -> TRUE
          [] OTHER -> Kind(w) = k1 /\ v.num = w.num /\ v.any.val = w.any.val

\* Equal that compares Strings, Bytes, Lists and Groups by their length.
EqualByLen(v, w) ==
    LET k1 == Kind(v)
        k2 == Kind(w)
    IN  IF k1 # k2 THEN FALSE
        ELSE CASE k1 = KindFloat64 -> FloatEq(float(v), float(w))
               [] k1 = KindEmpty -> TRUE
               [] OTHER -> v.num = w.num

Equal(v, w) ==
    LET k1 == Kind(v)
        k2 == Kind(w)
    IN  IF k1 # k2 THEN FALSE
        ELSE CASE k1 \in {KindInt64, KindUint64, KindBool} -> v.num = w.num
               [] k1 = KindString -> str(v) = str(w)
               [] k1 = KindFloat64 -> FloatEq(float(v), float(w))
               [] k1 = KindList -> sliceEqualFunc(list(v), list(w),
                            [i \in DOMAIN list(v) \cap DOMAIN list(w) |->
                                Equal(list(v)[i], list(w)[i])])
               [] k1 = KindGroup -> sliceEqualFunc(group(v), group(w),
                            [i \in DOMAIN group(v) \cap DOMAIN group(w) |->
                                KeyValue_Equal(group(v)[i], group(w)[i])])
               [] k1 = KindBytes -> bytesEqual(bytes(v), bytes(w))
               [] k1 = KindEmpty -> TRUE
               [] OTHER -> "panic: bad kind"

(***************************************************************************)
(* String.                                                                 *)
(***************************************************************************)
emptyString == "<nil>"

Digits == <<"0", "1", "2", "3", "4", "5", "6", "7", "8", "9">>

\* strconv.AppendUint(dst, u, 10), the text appended.
RECURSIVE AppendUint(_)
AppendUint(u) ==
    IF u < 10 THEN Digits[u + 1] ELSE AppendUint(u \div 10) \o Digits[(u % 10) + 1]

\* strconv.AppendInt(dst, i, 10), the text appended.
AppendInt(i) == IF i < 0 THEN "-" \o AppendUint(-i) ELSE AppendUint(i)

\* strconv.AppendBool.
AppendBool(b) == IF b THEN "true" ELSE "false"

\* The decimal digits of the fraction r / d, d a power of two.
RECURSIVE FractionDigits(_, _)
FractionDigits(r, d) ==
    IF r = 0 THEN ""
    ELSE Digits[((r * 10) \div d) + 1] \o FractionDigits((r * 10) % d, d)

\* strconv.AppendFloat(dst, f, 'g', -1, 64) of the float with the given bit
\* pattern: the shortest decimal that reads back as f.  The magnitude is
\* n / 2^MantBits, n being the mantissa scaled by the exponent.
AppendFloat(bits) ==
    LET d == 2 ^ MantBits
        e == Exponent(bits)
        n == IF e = 0 THEN Mantissa(bits) ELSE (d + Mantissa(bits)) * (2 ^ (e - 1))
        sign == IF SignBit(bits) = 1 THEN "-" ELSE ""
    IN  IF IsNaN(bits) THEN "NaN"
        ELSE IF IsInf(bits) THEN (IF SignBit(bits) = 1 THEN "-Inf" ELSE "+Inf")
        ELSE sign \o AppendUint(n \div d)
                  \o (IF n % d = 0 THEN "" ELSE "." \o FractionDigits(n % d, d))

\* The texts joined by single spaces.
RECURSIVE joinSpace(_)
joinSpace(texts) ==
    IF texts = <<>> THEN ""
    ELSE IF Len(texts) = 1 THEN texts[1]
    ELSE texts[1] \o " " \o joinSpace(Tail(texts))

\* fmt.Append(dst, slice), the text appended: the elements' texts between
\* brackets.
fmtAppend(texts) == "[" \o joinSpace(texts) \o "]"

\* The text fmt prints for an operand with a String method: what the method
\* returns, or, when it panics, fmt's report of the panic.
fmtStringer(r) == IF r.panic THEN "%!v(PANIC=String method: bad kind)" ELSE r.ret

RECURSIVE Value_String(_)
KeyValue_String(a) == Return(a.Key \o "=" \o fmtStringer(Value_String(a.Value)))

\* v.append(dst) without the case KindEmpty.
Value_appendNoEmpty(v) ==
    CASE Kind(v) = KindString -> Return(str(v))
      [] Kind(v) = KindInt64 -> Return(AppendInt(ToInt64(v.num)))
      [] Kind(v) = KindUint64 -> Return(AppendUint(v.num))
      [] Kind(v) = KindFloat64 -> Return(AppendFloat(float(v)))
      [] Kind(v) = KindBool -> Return(AppendBool(bool(v)))
      [] Kind(v) = KindBytes ->
            Return(fmtAppend([i \in 1..Len(bytes(v)) |-> AppendUint(bytes(v)[i])]))
      [] Kind(v) = KindGroup ->
            Return(fmtAppend([i \in 1..Len(group(v)) |->
                                 fmtStringer(KeyValue_String(group(v)[i]))]))
      [] Kind(v) = KindList ->
            Return(fmtAppend([i \in 1..Len(list(v)) |-> fmtStringer(Value_String(list(v)[i]))]))
      [] OTHER -> Panic

\* v.append(dst) that formats a Group member as its value alone.
Value_appendNoKey(v) ==
    CASE Kind(v) = KindString -> Return(str(v))
      [] Kind(v) = KindInt64 -> Return(AppendInt(ToInt64(v.num)))
      [] Kind(v) = KindUint64 -> Return(AppendUint(v.num))
      [] Kind(v) = KindFloat64 -> Return(AppendFloat(float(v)))
      [] Kind(v) = KindBool -> Return(AppendBool(bool(v)))
      [] Kind(v) = KindBytes ->
            Return(fmtAppend([i \in 1..Len(bytes(v)) |-> AppendUint(bytes(v)[i])]))
      [] Kind(v) = KindGroup ->
            Return(fmtAppend([i \in 1..Len(group(v)) |->
                                 fmtStringer(Value_String(group(v)[i].Value))]))
      [] Kind(v) = KindList ->
            Return(fmtAppend([i \in 1..Len(list(v)) |-> fmtStringer(Value_String(list(v)[i]))]))
      [] Kind(v) = KindEmpty -> Return(emptyString)
      [] OTHER -> Panic

\* v.append(dst) for an empty dst: the text appended, or the panic.
Value_append(v) ==
    CASE Kind(v) = KindString -> Return(str(v))
      [] Kind(v) = KindInt64 -> Return(AppendInt(ToInt64(v.num)))
      [] Kind(v) = KindUint64 -> Return(AppendUint(v.num))
      [] Kind(v) = KindFloat64 -> Return(AppendFloat(float(v)))
      [] Kind(v) = KindBool -> Return(AppendBool(bool(v)))
      [] Kind(v) = KindBytes ->
            Return(fmtAppend([i \in 1..Len(bytes(v)) |-> AppendUint(bytes(v)[i])]))
      [] Kind(v) = KindGroup ->
            Return(fmtAppend([i \in 1..Len(group(v)) |->
                                 fmtStringer(KeyValue_String(group(v)[i]))]))
      [] Kind(v) = KindList ->
            Return(fmtAppend([i \in 1..Len(list(v)) |-> fmtStringer(Value_String(list(v)[i]))]))
      [] Kind(v) = KindEmpty -> Return(emptyString)
      [] OTHER -> Panic

Value_String(v) ==
    IF v.any.type = "stringptr" THEN Return(v.any.val) ELSE Value_append(v)

(***************************************************************************)
(* Slices and the heap of backing arrays.                                  *)
(***************************************************************************)
ArrIds == 1..MaxArrays

\* The nil slice.
NilSlice == [ptr |-> 0, off |-> 0, len |-> 0, cap |-> 0]

\* The elements s[0:len(s)] of slice s in heap h.
Elems(h, s) == [i \in 1..s.len |-> h[s.ptr][s.off + i]]

\* s[i:] for 0 <= i <= len(s).
SliceFrom(s, i) ==
    IF s.ptr = 0 THEN s
    ELSE [ptr |-> s.ptr, off |-> s.off + i, len |-> s.len - i, cap |-> s.cap - i]

\* An array id that no slice in `used` refers to.
FreeId(used) == CHOOSE id \in ArrIds : id \notin used /\ \A j \in ArrIds : j < id => j \in used

ZeroArray(n) == [i \in 1..n |-> ZeroKeyValue]

\* make/append allocating a new array that holds elems followed by zeroed
\* spare capacity; the runtime may round the capacity up (spare).
NewArray(h, used, elems, spare) ==
    LET id == FreeId(used)
    IN  [heap |-> [h EXCEPT ![id] = elems \o ZeroArray(spare)],
         slice |-> [ptr |-> id, off |-> 0, len |-> Len(elems), cap |-> Len(elems) + spare]]

\* append(s, elems...): in place when the capacity suffices, otherwise into
\* a newly allocated array.
append(h, used, s, elems, spare) ==
    IF elems = <<>> THEN [heap |-> h, slice |-> s]
    ELSE IF s.len + Len(elems) <= s.cap
    THEN [heap |-> [h EXCEPT ![s.ptr] =
                       [j \in 1..Len(@) |->
                           IF j > s.off + s.len /\ j <= s.off + s.len + Len(elems)
                           THEN elems[j - s.off - s.len] ELSE @[j]]],
          slice |-> [s EXCEPT !.len = s.len + Len(elems)]]
    ELSE NewArray(h, used, Elems(h, s) \o elems, spare)

\* slices.Grow(s, n): guarantees space for n more elements;
\* append(s[:cap(s)], make([]E, n)...)[:len(s)] with n reduced by the free capacity.
slicesGrow(h, used, s, n, spare) ==
    IF n - (s.cap - s.len) > 0
    THEN LET a == NewArray(h, used,
                     Elems(h, [s EXCEPT !.len = s.cap]) \o ZeroArray(n - (s.cap - s.len)),
                     spare)
         IN  [heap |-> a.heap, slice |-> [a.slice EXCEPT !.len = s.len]]
    ELSE [heap |-> h, slice |-> s]

\* slices.Clone(s): append(s[:0:0], s...); of an empty slice it is a slice of
\* capacity zero, which shares no element with anything.
slicesClone(h, used, s, spare) ==
    IF s.len = 0 THEN [heap |-> h, slice |-> NilSlice]
    ELSE NewArray(h, used, Elems(h, s), spare)

(***************************************************************************)
(* The record (sdk/log/logtest record): inline slots front[0:nFront] and   *)
(* the overflow slice back.                                                *)
(***************************************************************************)
attributesInlineCount == 5

\* The zero record with the given attribute count limit.
NewRecord(limit) ==
    [front |-> ZeroArray(attributesInlineCount), nFront |-> 0, back |-> NilSlice,
     attributeCountLimit |-> limit]

\* The loop with r.front[i] = a in place of r.front[r.nFront] = a.
RECURSIVE fillFrontAtI(_, _, _, _)
fillFrontAtI(front, nFront, as, i) ==
    IF i < Len(as) /\ nFront < Len(front)
    THEN fillFrontAtI([front EXCEPT ![i + 1] = as[i + 1]], nFront + 1, as, i + 1)
    ELSE [front |-> front, nFront |-> nFront, i |-> i]

\* The loop shared by AddAttributes and SetAttributes:
\* for i = 0; i < len(attrs) && r.nFront < len(r.front); i++ { r.front[r.nFront] = attrs[i]; r.nFront++ }
\* The loop that stops one inline slot early.
RECURSIVE fillFrontLeaveOne(_, _, _, _)
fillFrontLeaveOne(front, nFront, as, i) ==
    IF i < Len(as) /\ nFront < Len(front) - 1
    THEN fillFrontLeaveOne([front EXCEPT ![nFront + 1] = as[i + 1]], nFront + 1, as, i + 1)
    ELSE [front |-> front, nFront |-> nFront, i |-> i]

RECURSIVE fillFront(_, _, _, _)
fillFront(front, nFront, as, i) ==
    IF i < Len(as) /\ nFront < Len(front)
    THEN fillFront([front EXCEPT ![nFront + 1] = as[i + 1]], nFront + 1, as, i + 1)
    ELSE [front |-> front, nFront |-> nFront, i |-> i]

\* AddAttributes that grows back but does not append to it.
addAttributesNoAppend(h, used, r, a, spare) ==
    LET f == fillFront(r.front, r.nFront, Elems(h, a), 0)
        rest == SliceFrom(a, f.i)
        g == slicesGrow(h, used, r.back, rest.len, spare)
    IN  [heap |-> g.heap,
         r |-> [r EXCEPT !.front = f.front, !.nFront = f.nFront, !.back = g.slice]]

\* AddAttributes that, when the attributes do not all fit into the free
\* inline slots, appends all of them to back.
addAttributesAllBack(h, used, r, a, spare) ==
    LET fits == a.len <= Len(r.front) - r.nFront
        f == IF fits THEN fillFront(r.front, r.nFront, Elems(h, a), 0)
             ELSE [front |-> r.front, nFront |-> r.nFront, i |-> 0]
        rest == SliceFrom(a, f.i)
        g == slicesGrow(h, used, r.back, rest.len, spare)
        p == append(g.heap, used, g.slice, Elems(g.heap, rest), spare)
    IN  [heap |-> p.heap,
         r |-> [r EXCEPT !.front = f.front, !.nFront = f.nFront, !.back = p.slice]]

\* r.AddAttributes(attrs...), attrs being the slice a in heap h.
addAttributes(h, used, r, a, spare) ==
    LET f == fillFront(r.front, r.nFront, Elems(h, a), 0)
        rest == SliceFrom(a, f.i)
        g == slicesGrow(h, used, r.back, rest.len, spare)
        p == append(g.heap, used, g.slice, Elems(g.heap, rest), spare)
    IN  [heap |-> p.heap,
         r |-> [r EXCEPT !.front = f.front, !.nFront = f.nFront, !.back = p.slice]]

\* SetAttributes without r.nFront = 0.
setAttributesNoReset(h, used, r, a, spare) ==
    LET f == fillFront(r.front, r.nFront, Elems(h, a), 0)
        b == slicesClone(h, used, SliceFrom(a, f.i), spare)
    IN  [heap |-> b.heap,
         r |-> [r EXCEPT !.front = f.front, !.nFront = f.nFront, !.back = b.slice]]

\* SetAttributes with r.back = attrs[i:], without slices.Clone.
setAttributesAlias(h, used, r, a, spare) ==
    LET f == fillFront(r.front, 0, Elems(h, a), 0)
    IN  [heap |-> h,
         r |-> [r EXCEPT !.front = f.front, !.nFront = f.nFront, !.back = SliceFrom(a, f.i)]]

\* r.SetAttributes(attrs...).
setAttributes(h, used, r, a, spare) ==
    LET f == fillFront(r.front, 0, Elems(h, a), 0)
        b == slicesClone(h, used, SliceFrom(a, f.i), spare)
    IN  [heap |-> b.heap,
         r |-> [r EXCEPT !.front = f.front, !.nFront = f.nFront, !.back = b.slice]]

AttributesLen(r) == r.nFront + r.back.len

AttributeCountLimit(r) == r.attributeCountLimit

\* Clone without slices.Clone: res := *r alone.
cloneShallow(h, used, r, spare) == [heap |-> h, r |-> r]

\* r.Clone().
clone(h, used, r, spare) ==
    LET b == slicesClone(h, used, r.back, spare)
    IN  [heap |-> b.heap, r |-> [r EXCEPT !.back = b.slice]]

\* A visitor f is modelled by the set of attributes on which it returns false.
Visit(f, kv) == kv \notin f

\* One loop of WalkAttributes over the sequence s, from index i (0-based):
\* the calls made to f, and whether f asked to stop.
RECURSIVE walkLoop(_, _, _, _)
walkLoop(s, f, i, calls) ==
    IF i < Len(s)
    THEN IF ~Visit(f, s[i + 1])
         THEN [calls |-> Append(calls, s[i + 1]), stopped |-> TRUE]
         ELSE walkLoop(s, f, i + 1, Append(calls, s[i + 1]))
    ELSE [calls |-> calls, stopped |-> FALSE]

\* WalkAttributes whose first loop ends with break instead of return.
WalkAttributesBreak(h, r, f) ==
    walkLoop(Elems(h, r.back), f, 0, walkLoop(SubSeq(r.front, 1, r.nFront), f, 0, <<>>).calls).calls

\* r.WalkAttributes(f): the sequence of attributes f is called on.
WalkAttributes(h, r, f) ==
    LET a == walkLoop(SubSeq(r.front, 1, r.nFront), f, 0, <<>>)
    IN  IF a.stopped THEN a.calls
        ELSE walkLoop(Elems(h, r.back), f, 0, a.calls).calls

(***************************************************************************)
(* The state.                                                              *)
(***************************************************************************)
VARIABLES
    heap,     \* the backing arrays: array id -> sequence of KeyValue
    rec,      \* the records: "r", and "c", the one Clone returned
    cloned,   \* whether r.Clone() has been called
    attrs,    \* the slice the caller passed to the last SetAttributes and still holds
    visited,  \* the calls the last operation made to a visitor
    expect,   \* history: per record, the last Set's attributes and all later Adds'
    last,     \* history: the last call that wrote something, the record it was made
              \* on and the number of stored attributes it replaced
    val,      \* the Value the last constructor call returned
    given,    \* history: the members the last constructor call was given
    ctor,     \* history: the constructor that returned val
    other,    \* the Value w that val was compared with
    pair,     \* the KeyValue built last
    op,       \* the method called last on val or kv
    out       \* what that call yielded: its return value, or a panic

varsRec == <<heap, rec, cloned, attrs, visited, expect, last>>

varsVal == <<val, given, ctor, other, pair, op, out>>

vars == <<heap, rec, cloned, attrs, visited, expect, last, val, given, ctor, other, pair, op, out>>

\* The attributes callers pass.
PoolSeq == <<Bool("a", TRUE), String("b", "x")>>

Pool == {PoolSeq[k] : k \in 1..Len(PoolSeq)}

\* The argument list of n attributes that starts with the k-th attribute of
\* the pool and goes round it: neighbours differ, so a change of order shows.
Args(n, k) == [i \in 1..n |-> PoolSeq[((k + i - 2) % Len(PoolSeq)) + 1]]

ArgLists == {Args(n, k) : n \in 0..MaxArgs, k \in 1..Len(PoolSeq)}

\* The visitors: one that never stops, and those that stop on some attribute.
Visitors == SUBSET Pool

NeverStop == {}

Roots(rs, at) == {rs[x].back.ptr : x \in DOMAIN rs} \cup {at.ptr}

\* Arrays that nothing refers to are reclaimed.
Collect(h, roots) == [id \in ArrIds |-> IF id \in roots THEN h[id] ELSE <<>>]

\* The array the caller builds for a variadic call.
CallerSlice(h, used, as) ==
    IF as = <<>> THEN [heap |-> h, slice |-> NilSlice] ELSE NewArray(h, used, as, 0)

\* The capacities the runtime may give the array a call allocates; a call that
\* allocates nothing has nothing to choose.
Spares(allocates) == IF allocates THEN 0..MaxSpare ELSE {0}

\* Whether r.AddAttributes with n attributes has to grow r.back.
AddGrows(r, n) ==
    LET free == Len(r.front) - r.nFront
    IN  n > free /\ n - free > r.back.cap - r.back.len

InitRec(limit) ==
    /\ heap = [id \in ArrIds |-> <<>>]
    /\ rec = [x \in {"r", "c"} |-> NewRecord(limit)]
    /\ cloned = FALSE
    /\ attrs = NilSlice
    /\ visited = <<>>
    /\ expect = [x \in {"r", "c"} |-> <<>>]
    /\ last = [op |-> "none", x |-> "r", replaced |-> 0]
    /\ val = ZeroValue
    /\ given = <<>>
    /\ ctor = "none"
    /\ other = ZeroValue
    /\ pair = ZeroKeyValue
    /\ op = "none"
    /\ out = Return(<<>>)

Exists(x) == x = "r" \/ cloned

\* A call rec[x].AddAttributes(as...).
AddAttributes(x, as) ==
    /\ Exists(x)
    /\ AttributesLen(rec[x]) + Len(as) <= MaxLen
    /\ \E spare \in Spares(AddGrows(rec[x], Len(as))) :
          LET used == Roots(rec, attrs)
              call == CallerSlice(heap, used, as)
              res == addAttributes(call.heap, used \cup {call.slice.ptr}, rec[x], call.slice, spare)
          IN  /\ rec' = [rec EXCEPT ![x] = res.r]
              /\ heap' = Collect(res.heap, Roots(rec', attrs))
    /\ expect' = [expect EXCEPT ![x] = @ \o as]
    /\ last' = [op |-> "AddAttributes", x |-> x, replaced |-> 0]
    /\ visited' = <<>>
    /\ UNCHANGED <<cloned, attrs, varsVal>>

\* A call rec[x].SetAttributes(as...); keep: the caller holds on to its slice.
SetAttributes(x, as, keep) ==
    /\ Exists(x)
    /\ \E spare \in Spares(Len(as) > Len(rec[x].front)) :
          LET used == Roots(rec, attrs)
              call == CallerSlice(heap, used, as)
              res == setAttributes(call.heap, used \cup {call.slice.ptr}, rec[x], call.slice, spare)
          IN  /\ rec' = [rec EXCEPT ![x] = res.r]
              /\ attrs' = IF keep THEN call.slice ELSE NilSlice
              /\ heap' = Collect(res.heap, Roots(rec', attrs'))
    /\ expect' = [expect EXCEPT ![x] = as]
    /\ last' = [op |-> "SetAttributes", x |-> x, replaced |-> AttributesLen(rec[x])]
    /\ visited' = <<>>
    /\ UNCHANGED <<cloned, varsVal>>

\* The caller overwrites element i of the slice it passed to SetAttributes.
CallerOverwrite(i, kv) ==
    /\ attrs.ptr # 0
    /\ i \in 1..attrs.len
    /\ heap' = [heap EXCEPT ![attrs.ptr][attrs.off + i] = kv]
    /\ last' = [op |-> "CallerOverwrite", x |-> "r", replaced |-> 0]
    /\ visited' = <<>>
    /\ UNCHANGED <<rec, cloned, attrs, expect, varsVal>>

\* A call rec[x].WalkAttributes(f).
Walk(x, f) ==
    /\ Exists(x)
    /\ visited' = WalkAttributes(heap, rec[x], f)
    /\ UNCHANGED <<heap, rec, cloned, attrs, expect, last, varsVal>>

\* c := r.Clone().
Clone ==
    /\ ~cloned
    /\ \E spare \in Spares(rec["r"].back.len > 0) :
          LET res == clone(heap, Roots(rec, attrs), rec["r"], spare)
          IN  /\ rec' = [rec EXCEPT !["c"] = res.r]
              /\ heap' = Collect(res.heap, Roots(rec', attrs))
    /\ cloned' = TRUE
    /\ expect' = [expect EXCEPT !["c"] = expect["r"]]
    /\ last' = [op |-> "Clone", x |-> "r", replaced |-> 0]
    /\ visited' = <<>>
    /\ UNCHANGED <<attrs, varsVal>>

(***************************************************************************)
(* One record and a visitor.                                               *)
(***************************************************************************)
Init == InitRec(0)

Next ==
    \/ \E as \in ArgLists : AddAttributes("r", as)
    \/ \E as \in ArgLists : SetAttributes("r", as, FALSE)
    \/ \E f \in Visitors : Walk("r", f)

Spec == Init /\ [][Next]_vars

(***************************************************************************)
(* A record with an attribute count limit that only ever gets              *)
(* AddAttributes calls.                                                    *)
(***************************************************************************)
AttributeCountLimits == {-1, 0, 2, 6}

InitAdd == \E limit \in AttributeCountLimits : InitRec(limit)

NextAdd == \E as \in ArgLists : AddAttributes("r", as)

SpecAdd == InitAdd /\ [][NextAdd]_vars

(***************************************************************************)
(* A caller that holds on to the slice it passed to SetAttributes and      *)
(* overwrites its elements.                                                *)
(***************************************************************************)
NextAlias ==
    \/ \E as \in ArgLists, keep \in BOOLEAN : SetAttributes("r", as, keep)
    \/ \E i \in 1..MaxArgs, kv \in Pool : CallerOverwrite(i, kv)

SpecAlias == Init /\ [][NextAlias]_vars

(***************************************************************************)
(* A record and its clone.  Calls on r pass copies of the first attribute  *)
(* of the pool and calls on c copies of the second, so that an attribute   *)
(* of one that shows up in the other is seen.                              *)
(***************************************************************************)
OwnArgs(x) == {[i \in 1..n |-> PoolSeq[IF x = "r" THEN 1 ELSE 2]] : n \in {1, 2, MaxArgs}}

NextClone ==
    \/ \E x \in {"r", "c"} : \E as \in OwnArgs(x) : AddAttributes(x, as)
    \/ \E x \in {"r", "c"} : \E as \in OwnArgs(x) : SetAttributes(x, as, FALSE)
    \/ Clone

SpecClone == Init /\ [][NextClone]_vars

(***************************************************************************)
(* A caller that builds Values bottom-up: each constructor call is given   *)
(* members that are scalars, empty Groups or the Value built last.         *)
(***************************************************************************)
Keys == {"", "k"}

\* What the caller nests into a Value besides the Value built last.
Leaves == {ZeroValue, BoolValue(TRUE), GroupValue(<<>>)}

\* The number of values in v, nested ones included.
RECURSIVE Size(_)
SizeAll(vs) ==
    LET RECURSIVE sum(_)
        sum(i) == IF i > Len(vs) THEN 0 ELSE Size(vs[i]) + sum(i + 1)
    IN  sum(1)
Size(v) ==
    CASE v.any.type = "listptr" -> 1 + SizeAll(v.any.val)
      [] v.any.type = "groupptr" -> 1 + SizeAll([i \in 1..Len(v.any.val) |-> v.any.val[i].Value])
      [] OTHER -> 1

\* The lists of values a constructor can be given: of fewer than MaxSize values in all.
ValueLists ==
    {vs \in UNION {[1..n -> Leaves \cup {val}] : n \in 0..(MaxSize - 1)} : SizeAll(vs) < MaxSize}

\* The same values, each paired with a key.
MemberLists ==
    UNION {{[i \in 1..Len(vs) |-> KeyValue(ks[i], vs[i])] : ks \in [1..Len(vs) -> Keys]} :
              vs \in ValueLists}

\* val = GroupValue(kvs...).
CallGroupValue(kvs) ==
    /\ val' = GroupValue(kvs)
    /\ given' = kvs
    /\ ctor' = "GroupValue"
    /\ UNCHANGED <<other, pair, op, out>>
    /\ UNCHANGED varsRec

\* val = ListValue(vs...).
CallListValue(vs) ==
    /\ val' = ListValue(vs)
    /\ given' = [i \in 1..Len(vs) |-> KeyValue("", vs[i])]
    /\ ctor' = "ListValue"
    /\ UNCHANGED <<other, pair, op, out>>
    /\ UNCHANGED varsRec

NextValue ==
    \/ \E kvs \in MemberLists : CallGroupValue(kvs)
    \/ \E vs \in ValueLists : CallListValue(vs)

SpecValue == Init /\ [][NextValue]_vars

(***************************************************************************)
(* A caller that builds one Value with a constructor and then calls one    *)
(* method on it, or stores it under a key.                                 *)
(***************************************************************************)
Int64s == MinInt64..MaxInt64

Uint64s == 0..(Word - 1)

\* The bit patterns of all floats.
FloatBits == 0..(Word - 1)

Texts == {"", "x", "foo"}

ByteLists == {<<>>, <<0>>, <<2, 4, 6>>, <<6, 4, 2>>}

\* The sequences of at most n elements of S.
SeqsUpTo(S, n) == UNION {[1..k -> S] : k \in 0..n}

\* The values Lists and Groups are built from.
SmallValues ==
    {ZeroValue, Int64Value(1), StringValue("x"), GroupValue(<<>>),
     GroupValue(<<Bool("b", TRUE)>>)}

MemberKeys == {"", "a"}

SmallMembers == {KeyValue(k, v) : k \in MemberKeys, v \in SmallValues}

\* The arguments of TestEmptyGroup, of the Group of TestValueString and of
\* the Group of TestValueEqual.
TestEmptyGroup ==
    <<IntKeyValue("a", 1),
      Group("g1", <<Group("g2", <<>>)>>),
      Group("g3", <<Group("g4", <<IntKeyValue("b", 2)>>)>>)>>

TestValueString == <<IntKeyValue("a", 1), Bool("b", TRUE)>>

TestValueEqual == <<Bool("b", TRUE), IntKeyValue("i", 3), Bytes("b", <<3, 5, 7>>)>>

ListArgs == SeqsUpTo(SmallValues, MaxMembers)

\* The bit pattern of a NaN: exponent and mantissa bits all set.
NaNBits == 2 ^ (WordBits - 1) - 1

\* Members that are floats: a number and a NaN.
FloatMembers == {Float64("f", 1), Float64("n", NaNBits)}

GroupArgs ==
    SeqsUpTo(SmallMembers, MaxMembers) \cup {TestEmptyGroup, TestValueString, TestValueEqual}
    \cup {<<m>> : m \in FloatMembers}
    \cup {<<Group("g", <<>>), m>> : m \in FloatMembers}

\* The Values w that a Value is compared with, besides itself.
Comparands ==
    {ZeroValue, BoolValue(TRUE), BoolValue(FALSE), Int64Value(0), Int64Value(1),
     Uint64Value(0), Uint64Value(1), StringValue(""), StringValue("x"),
     BytesValue(<<>>), BytesValue(<<2, 4, 6>>), BytesValue(<<6, 4, 2>>)}
    \cup {Float64Value(b) : b \in FloatBits}
    \cup {ListValue(vs) : vs \in SeqsUpTo({Int64Value(1), StringValue("x")}, 2)}
    \cup {GroupValue(kvs) :
             kvs \in SeqsUpTo({IntKeyValue("a", 1), IntKeyValue("", 1), String("a", "x")}, 2)}

\* val is what the constructor name returned for the arguments args.
Constructed(name, v, args) ==
    /\ val' = v
    /\ given' = args
    /\ ctor' = name
    /\ UNCHANGED <<other, pair, op, out>>
    /\ UNCHANGED varsRec

\* var v Value: the zero Value.
NewValue == Constructed("Value{}", ZeroValue, <<>>)

CallBoolValue(v) == Constructed("BoolValue", BoolValue(v), <<v>>)

CallInt64Value(v) == Constructed("Int64Value", Int64Value(v), <<v>>)

CallIntValue(v) == Constructed("IntValue", IntValue(v), <<v>>)

CallUint64Value(v) == Constructed("Uint64Value", Uint64Value(v), <<v>>)

CallFloat64Value(v) == Constructed("Float64Value", Float64Value(v), <<v>>)

CallStringValue(value) == Constructed("StringValue", StringValue(value), <<value>>)

CallBytesValue(v) == Constructed("BytesValue", BytesValue(v), <<v>>)

\* The method name was called on val and yielded result.
Called(name, result) ==
    /\ op' = name
    /\ out' = result
    /\ UNCHANGED <<val, given, ctor, other, pair>>
    /\ UNCHANGED varsRec

CallKind == Called("Kind", Return(Kind(val)))

CallEmpty == Called("Empty", Return(Empty(val)))

CallBool == Called("Bool", Value_Bool(val))

CallInt64 == Called("Int64", Value_Int64(val))

CallUint64 == Called("Uint64", Value_Uint64(val))

CallFloat64 == Called("Float64", Value_Float64(val))

CallBytes == Called("Bytes", Value_Bytes(val))

CallList == Called("List", Value_List(val))

CallGroup == Called("Group", Value_Group(val))

CallString == Called("String", Value_String(val))

CallAny == Called("Any", Value_Any(val))

\* val.Equal(w).
CallEqual(w) ==
    /\ other' = w
    /\ op' = "Equal"
    /\ out' = Return(Equal(val, w))
    /\ UNCHANGED <<val, given, ctor, pair>>
    /\ UNCHANGED varsRec

\* GroupValue(val.Group()...), compared with val.
CallRegroup ==
    /\ ctor = "GroupValue"
    /\ other' = GroupValue(Value_Group(val).ret)
    /\ op' = "Regroup"
    /\ out' = Return(Equal(val, other'))
    /\ UNCHANGED <<val, given, ctor, pair>>
    /\ UNCHANGED varsRec

\* The sequence s with e put in after its first i elements.
InsertAt(s, i, e) == SubSeq(s, 1, i) \o <<e>> \o SubSeq(s, i + 1, Len(s))

\* GroupValue of the members val was built from and of one more member, an
\* empty Group put in after the first i, compared with val.
CallGroupValueWithEmptyGroup(i, key) ==
    /\ ctor = "GroupValue"
    /\ Len(given) <= MaxMembers
    /\ pair' = Group(key, <<>>)
    /\ other' = GroupValue(InsertAt(given, i, pair'))
    /\ op' = "GroupValueWithEmptyGroup"
    /\ out' = Return(Equal(val, other'))
    /\ UNCHANGED <<val, given, ctor>>
    /\ UNCHANGED varsRec

\* KeyValue{key, val}.Invalid().
CallInvalid(key) ==
    /\ pair' = KeyValue(key, val)
    /\ op' = "Invalid"
    /\ out' = Return(Invalid(KeyValue(key, val)))
    /\ UNCHANGED <<val, given, ctor, other>>
    /\ UNCHANGED varsRec

NextOps ==
    \/ ctor = "none" /\ NewValue
    \/ ctor = "none" /\ \E v \in BOOLEAN : CallBoolValue(v)
    \/ ctor = "none" /\ \E v \in Int64s : CallInt64Value(v)
    \/ ctor = "none" /\ \E v \in Int64s : CallIntValue(v)
    \/ ctor = "none" /\ \E v \in Uint64s : CallUint64Value(v)
    \/ ctor = "none" /\ \E v \in FloatBits : CallFloat64Value(v)
    \/ ctor = "none" /\ \E value \in Texts : CallStringValue(value)
    \/ ctor = "none" /\ \E v \in ByteLists : CallBytesValue(v)
    \/ ctor = "none" /\ \E vs \in ListArgs : CallListValue(vs)
    \/ ctor = "none" /\ \E kvs \in GroupArgs : CallGroupValue(kvs)
    \/ ctor # "none" /\ op = "none" /\ last.op = "none" /\ CallKind
    \/ ctor # "none" /\ op = "none" /\ last.op = "none" /\ CallEmpty
    \/ ctor # "none" /\ op = "none" /\ last.op = "none" /\ CallBool
    \/ ctor # "none" /\ op = "none" /\ last.op = "none" /\ CallInt64
    \/ ctor # "none" /\ op = "none" /\ last.op = "none" /\ CallUint64
    \/ ctor # "none" /\ op = "none" /\ last.op = "none" /\ CallFloat64
    \/ ctor # "none" /\ op = "none" /\ last.op = "none" /\ CallBytes
    \/ ctor # "none" /\ op = "none" /\ last.op = "none" /\ CallList
    \/ ctor # "none" /\ op = "none" /\ last.op = "none" /\ CallGroup
    \/ ctor # "none" /\ op = "none" /\ last.op = "none" /\ CallString
    \/ ctor # "none" /\ op = "none" /\ last.op = "none" /\ CallAny
    \/ ctor # "none" /\ op = "none" /\ last.op = "none"
          /\ \E w \in Comparands \cup {val} : CallEqual(w)
    \/ ctor # "none" /\ op = "none" /\ last.op = "none" /\ CallRegroup
    \/ ctor # "none" /\ op = "none" /\ last.op = "none"
          /\ \E i \in 0..Len(given), key \in MemberKeys : CallGroupValueWithEmptyGroup(i, key)
    \/ ctor # "none" /\ op = "none" /\ last.op = "none"
          /\ \E key \in MemberKeys : CallInvalid(key)
    \/ ctor # "none" /\ op = "none" /\ last.op = "none"
          /\ \E key \in MemberKeys : AddAttributes("r", <<KeyValue(key, val)>>)

SpecOps == Init /\ [][NextOps]_vars

(***************************************************************************)
(* The bridges from slog and logr.  A slog.Value is its kind and payload,  *)
(* a logr value an any: both are boxes.  An attribute.Value is its Type()  *)
(* and what the As method of the type returns.                             *)
(***************************************************************************)
attribute_BoolValue(v) == Box("BOOL", v)

attribute_Int64Value(v) == Box("INT64", v)

attribute_Float64Value(v) == Box("FLOAT64", v)

attribute_StringValue(v) == Box("STRING", v)

\* fmt.Sprintf("%+v", x) of the boxed x.
fmtSprintf(x) ==
    CASE x.type = "nil" -> emptyString
      [] x.type = "error" -> x.val
      [] x.type = "[]int" -> fmtAppend([i \in DOMAIN x.val |-> AppendInt(x.val[i])])

convertValue(v) ==
    CASE v.type = "KindAny" -> Return(attribute_StringValue(fmtSprintf(v.val)))
      [] v.type = "KindBool" -> Return(attribute_BoolValue(v.val))
      [] v.type = "KindDuration" -> Return(attribute_Int64Value(v.val))
      [] v.type = "KindFloat64" -> Return(attribute_Float64Value(v.val))
      [] v.type = "KindInt64" -> Return(attribute_Int64Value(v.val))
      [] v.type = "KindString" -> Return(attribute_StringValue(v.val))
      [] v.type = "KindTime" -> Return(attribute_Int64Value(v.val))
      [] v.type = "KindUint64" -> Return(attribute_Int64Value(ToInt64(v.val)))
      [] OTHER -> Panic

\* attr is a slog.Attr, a Key and a Value.
convertAttr(attr) ==
    LET value == convertValue(attr.Value)
    IN  IF value.panic THEN Panic ELSE Return(KeyValue(attr.Key, value.ret))

convertKV(k, v) ==
    CASE v.type = "bool" -> Return(KeyValue(k, attribute_BoolValue(v.val)))
      [] v.type = "float64" -> Return(KeyValue(k, attribute_Float64Value(v.val)))
      [] v.type = "int" -> Return(KeyValue(k, attribute_Int64Value(v.val)))
      [] v.type = "string" -> Return(KeyValue(k, attribute_StringValue(v.val)))
      [] OTHER -> Panic

\* What a KindAny slog.Value holds, and what a logr value can be besides a
\* bool, a float64, an int or a string.
OtherGoValues == {Nil, Box("error", "boom"), Box("[]int", <<1, 2>>)}

\* The slog.Values: a KindGroup holds attributes, a KindLogValuer a LogValuer.
SlogValues ==
    {Box("KindAny", x) : x \in OtherGoValues}
    \cup {Box("KindBool", b) : b \in BOOLEAN}
    \cup {Box("KindDuration", d) : d \in Int64s}
    \cup {Box("KindFloat64", f) : f \in FloatBits}
    \cup {Box("KindInt64", i) : i \in Int64s}
    \cup {Box("KindString", t) : t \in Texts}
    \cup {Box("KindTime", t) : t \in Int64s}
    \cup {Box("KindUint64", u) : u \in Uint64s}
    \cup {Box("KindGroup", <<>>),
          Box("KindGroup", <<KeyValue("a", Box("KindInt64", 1))>>),
          Box("KindLogValuer", "valuer")}

LogrValues ==
    {Box("bool", b) : b \in BOOLEAN}
    \cup {Box("float64", f) : f \in FloatBits}
    \cup {Box("int", i) : i \in Int64s}
    \cup {Box("string", t) : t \in Texts}
    \cup {Box("int64", 1), Box("uint", 1)}
    \cup OtherGoValues

\* The bridge function name was called with args and yielded result.
Bridged(name, args, result) ==
    /\ op' = name
    /\ given' = args
    /\ out' = result
    /\ UNCHANGED <<val, ctor, other, pair>>
    /\ UNCHANGED varsRec

CallConvertValue(v) == Bridged("convertValue", <<v>>, convertValue(v))

CallConvertAttr(key, v) ==
    Bridged("convertAttr", <<KeyValue(key, v)>>, convertAttr(KeyValue(key, v)))

CallConvertKV(k, v) == Bridged("convertKV", <<k, v>>, convertKV(k, v))

NextBridge ==
    \/ op = "none" /\ \E v \in SlogValues : CallConvertValue(v)
    \/ op = "none" /\ \E key \in MemberKeys, v \in SlogValues : CallConvertAttr(key, v)
    \/ op = "none" /\ \E k \in MemberKeys, v \in LogrValues : CallConvertKV(k, v)

SpecBridge == Init /\ [][NextBridge]_vars

(***************************************************************************)
(* reservoirFunc.  A func value is a box of type "func" that holds the     *)
(* reservoir a call of it returns; an Aggregation is a box of its type and *)
(* fields.                                                                 *)
(***************************************************************************)
Func(reservoir) == Box("func", reservoir)

\* The func literal resF, called: the reservoir-creation func for agg.
resF(agg, numCPU) ==
    IF agg.type = "AggregationExplicitBucketHistogram" /\ Len(agg.val) > 0
    THEN Func(Box("exemplar.Histogram", agg.val))
    ELSE LET n == IF agg.type = "AggregationBase2ExponentialHistogram"
                  THEN (IF agg.val > 20 THEN 20 ELSE agg.val)
                  ELSE (IF numCPU < 1 THEN 1 ELSE numCPU)
         IN  Func(Box("exemplar.FixedSize", n))

\* enabled is x.Exemplars.Enabled(), env the value of
\* OTEL_METRICS_EXEMPLAR_FILTER, numCPU what runtime.NumCPU() returns.
reservoirFunc(agg, enabled, env, numCPU) ==
    IF ~enabled THEN Nil
    ELSE CASE env = "always_on" -> resF(agg, numCPU)
           [] env = "always_off" -> Func(Box("exemplar.Drop", <<>>))
           [] OTHER -> Func(Box("exemplar.SampledFilter", resF(agg, numCPU).val))

\* Aggregations: explicit bucket histograms by their Boundaries, base-2
\* exponential histograms by their MaxSize, and others.
Aggregations ==
    {Box("AggregationExplicitBucketHistogram", b) : b \in {<<>>, <<0>>, <<0, 5, 10>>}}
    \cup {Box("AggregationBase2ExponentialHistogram", n) : n \in {0, 1, 20, 21, 160}}
    \cup {Box("AggregationSum", <<>>), Box("AggregationDefault", <<>>)}

FilterEnvValues == {"", "always_on", "always_off", "trace_based", "other"}

NumCPUs == {0, 1, 8}

CallReservoirFunc(agg, enabled, env, numCPU) ==
    /\ op' = "reservoirFunc"
    /\ given' = <<agg, enabled, env, numCPU>>
    /\ out' = Return(reservoirFunc(agg, enabled, env, numCPU))
    /\ UNCHANGED <<val, ctor, other, pair>>
    /\ UNCHANGED varsRec

NextExemplar ==
    /\ op = "none"
    /\ \E agg \in Aggregations, enabled \in BOOLEAN, env \in FilterEnvValues,
          numCPU \in NumCPUs : CallReservoirFunc(agg, enabled, env, numCPU)

SpecExemplar == Init /\ [][NextExemplar]_vars

(***************************************************************************)
(* writerLogger: a logger holds the writer w, the inline slots             *)
(* front[0:nFront] and the overflow slice back; its attributes are         *)
(* attribute.KeyValues.                                                    *)
(***************************************************************************)
\* The zero attribute.KeyValue.
ZeroAttr == KeyValue("", Box("INVALID", <<>>))

ZeroAttrs(n) == [i \in 1..n |-> ZeroAttr]

\* a.Valid(): the key is not empty and the value has a type.
Valid(a) == a.Key # "" /\ a.Value.type # "INVALID"

\* sliceGrow(s, n); n, a count, is never negative.
sliceGrow(h, used, s, n, spare) ==
    IF n - (s.cap - s.len) > 0
    THEN LET id == FreeId(used)
             elems == Elems(h, [s EXCEPT !.len = s.cap])
                         \o ZeroAttrs(n - (s.cap - s.len)) \o ZeroAttrs(spare)
         IN  [heap |-> [h EXCEPT ![id] = elems],
              slice |-> [ptr |-> id, off |-> 0, len |-> s.len, cap |-> Len(elems)]]
    ELSE [heap |-> h, slice |-> s]

\* sliceClip(s): s[:len(s):len(s)].
sliceClip(s) == [s EXCEPT !.cap = s.len]

\* &writerLogger{w: sb}.
NewWriterLogger ==
    [w |-> "sb", front |-> ZeroAttrs(attributesInlineCount), nFront |-> 0, back |-> NilSlice]

\* The first loop of WithAttributes storing the attributes that are not valid too.
RECURSIVE fillValidKeepInvalid(_, _, _, _)
fillValidKeepInvalid(front, nFront, as, i) ==
    IF i < Len(as) /\ nFront < Len(front)
    THEN fillValidKeepInvalid([front EXCEPT ![nFront + 1] = as[i + 1]], nFront + 1, as, i + 1)
    ELSE [front |-> front, nFront |-> nFront, i |-> i]

\* The first loop of WithAttributes: the valid attributes go to the free
\* inline slots; i is the number of attributes the loop went over.
RECURSIVE fillValid(_, _, _, _)
fillValid(front, nFront, as, i) ==
    IF i < Len(as) /\ nFront < Len(front)
    THEN IF ~Valid(as[i + 1])
         THEN fillValid(front, nFront, as, i + 1)
         ELSE fillValid([front EXCEPT ![nFront + 1] = as[i + 1]], nFront + 1, as, i + 1)
    ELSE [front |-> front, nFront |-> nFront, i |-> i]

\* The last loop of WithAttributes: append(cl.back, a) for each valid a.
RECURSIVE appendValid(_, _, _, _, _)
appendValid(h, used, s, as, spare) ==
    IF as = <<>> THEN [heap |-> h, slice |-> s]
    ELSE IF Valid(Head(as))
    THEN LET p == append(h, used, s, <<Head(as)>>, spare)
         IN  appendValid(p.heap, used, p.slice, Tail(as), spare)
    ELSE appendValid(h, used, s, Tail(as), spare)

\* WithAttributes without the final sliceClip.
withAttributesNoClip(h, used, l, a, spare) ==
    LET f == fillValid(l.front, l.nFront, Elems(h, a), 0)
        rest == SliceFrom(a, f.i)
        attrsToSlice == Len(SelectSeq(Elems(h, rest), Valid))
        cl == [l EXCEPT !.front = f.front, !.nFront = f.nFront]
    IN  IF attrsToSlice = 0 THEN [heap |-> h, l |-> cl]
        ELSE LET g == sliceGrow(h, used, cl.back, attrsToSlice, spare)
                 p == appendValid(g.heap, used, g.slice, Elems(g.heap, rest), spare)
             IN  [heap |-> p.heap, l |-> [cl EXCEPT !.back = p.slice]]

\* l.WithAttributes(attrs...), attrs being the slice a in heap h: the logger
\* returned.
withAttributes(h, used, l, a, spare) ==
    LET f == fillValid(l.front, l.nFront, Elems(h, a), 0)
        rest == SliceFrom(a, f.i)
        attrsToSlice == Len(SelectSeq(Elems(h, rest), Valid))
        cl == [l EXCEPT !.front = f.front, !.nFront = f.nFront]
    IN  IF attrsToSlice = 0 THEN [heap |-> h, l |-> cl]
        ELSE LET g == sliceGrow(h, used, cl.back, attrsToSlice, spare)
                 p == appendValid(g.heap, used, g.slice, Elems(g.heap, rest), spare)
             IN  [heap |-> p.heap, l |-> [cl EXCEPT !.back = sliceClip(p.slice)]]

\* l.walkAttributes(f): the sequence of attributes f is called on.
walkAttributes(h, l, f) ==
    LET a == walkLoop(SubSeq(l.front, 1, l.nFront), f, 0, <<>>)
    IN  IF a.stopped THEN a.calls
        ELSE walkLoop(Elems(h, l.back), f, 0, a.calls).calls

\* l.appendValue(v): the text written.
appendValue(v) ==
    CASE v.type = "STRING" -> Return(v.val)
      [] v.type = "INT64" -> Return(AppendInt(v.val))
      [] v.type = "FLOAT64" -> Return(AppendFloat(v.val))
      [] v.type = "BOOL" -> Return(AppendBool(v.val))
      [] OTHER -> Panic

\* What the function Emit passes to walkAttributes writes for kvs.
RECURSIVE writeAttributes(_)
writeAttributes(kvs) ==
    IF kvs = <<>> THEN Return("")
    ELSE LET v == appendValue(Head(kvs).Value)
             t == writeAttributes(Tail(kvs))
         IN  IF v.panic \/ t.panic THEN Panic
             ELSE Return(" " \o Head(kvs).Key \o "=" \o v.ret \o t.ret)

\* l.Emit(ctx, r): the text written to l.w.  A Timestamp is whether it is
\* the zero time and its Unix seconds.
emit(h, l, r) ==
    LET stamp == IF ~r.Timestamp.IsZero
                 THEN "timestamp=" \o AppendInt(r.Timestamp.Unix) \o " " ELSE ""
        as == writeAttributes(walkAttributes(h, l, NeverStop))
    IN  IF as.panic THEN Panic
        ELSE Return(stamp \o "severity=" \o AppendInt(r.Severity) \o " "
                        \o "body=" \o r.Body \o as.ret \o "\n")

\* The loggers: p, and a and b that get what WithAttributes returns.
Loggers == {"p", "a", "b"}

\* The calls y = x.WithAttributes(...) made.
Derivations == {<<"p", "p">>, <<"p", "a">>, <<"p", "b">>}

\* The valid attribute passed in the calls that yield logger y, one per
\* logger and of a type of its own, and two attributes that are not valid.
OwnAttr(y) ==
    CASE y = "p" -> KeyValue("p", attribute_StringValue("x"))
      [] y = "a" -> KeyValue("a", attribute_Int64Value(-3))
      [] y = "b" -> KeyValue("b", attribute_BoolValue(TRUE))

NoKeyAttr == KeyValue("", attribute_Int64Value(1))

NoValueAttr == KeyValue("k", Box("INVALID", <<>>))

\* The argument lists of the calls that yield y.  For p: one attribute, one
\* for each inline slot, and a long list with attributes that are not valid
\* in between.  For a and b: one and two attributes, and for a lists without
\* a valid attribute.
LoggerArgs(y) ==
    IF y = "p"
    THEN {<<OwnAttr(y)>>,
          [i \in 1..attributesInlineCount |-> OwnAttr(y)],
          [i \in 1..MaxArgs |-> IF i % 3 = 2 THEN NoKeyAttr ELSE OwnAttr(y)]}
    ELSE {<<OwnAttr(y)>>, <<OwnAttr(y), NoKeyAttr, OwnAttr(y)>>}
            \cup (IF y = "a" THEN {<<NoKeyAttr>>, <<NoValueAttr, NoKeyAttr>>} ELSE {})

\* The log.Records emitted: that of TestWriterLogger, and one without Timestamp.
Records ==
    {[Timestamp |-> [IsZero |-> FALSE, Unix |-> 595728000], Severity |-> 9, Body |-> "log message"],
     [Timestamp |-> [IsZero |-> TRUE, Unix |-> 0], Severity |-> 9, Body |-> "log message"]}

InitLogger ==
    /\ heap = [id \in ArrIds |-> <<>>]
    /\ rec = [x \in Loggers |-> NewWriterLogger]
    /\ cloned = FALSE
    /\ attrs = NilSlice
    /\ visited = <<>>
    /\ expect = [x \in Loggers |-> <<>>]
    /\ last = [op |-> "none", x |-> "p", replaced |-> 0]
    /\ val = ZeroValue
    /\ given = <<>>
    /\ ctor = "none"
    /\ other = ZeroValue
    /\ pair = ZeroKeyValue
    /\ op = "none"
    /\ out = Return(<<>>)

\* Whether l.WithAttributes(as...) has to grow l.back.
LoggerGrows(l, as) ==
    LET valid == Len(SelectSeq(as, Valid))
        free == Len(l.front) - l.nFront
    IN  valid > free /\ valid - free > l.back.cap - l.back.len

\* The loggers in a fixed order, and the arrays of the loggers rs numbered
\* in the order in which the loggers refer to them.  The address of an array
\* is not observable: states are kept up to the numbering of the arrays.
LoggerSeq == <<"p", "a", "b">>

FirstRef(rs, q) ==
    LET refs == {i \in 1..Len(LoggerSeq) : rs[LoggerSeq[i]].back.ptr = q}
    IN  CHOOSE i \in refs : \A j \in refs : i <= j

Renumbered(rs, q) ==
    IF q = 0 THEN 0
    ELSE Cardinality({FirstRef(rs, rs[z].back.ptr) :
                         z \in {z \in DOMAIN rs : /\ rs[z].back.ptr # 0
                                                   /\ FirstRef(rs, rs[z].back.ptr) <= FirstRef(rs, q)}})

Compact(h, rs) ==
    LET ptrs == {rs[z].back.ptr : z \in DOMAIN rs} \ {0}
    IN  [heap |-> [id \in ArrIds |->
                      IF \E q \in ptrs : Renumbered(rs, q) = id
                      THEN h[CHOOSE q \in ptrs : Renumbered(rs, q) = id] ELSE <<>>],
         rec |-> [z \in DOMAIN rs |-> [rs[z] EXCEPT !.back.ptr = Renumbered(rs, @)]]]

\* The most attributes logger y gets to hold: p one more than there are
\* inline slots, the loggers derived from it one more than p.
LoggerMaxLen(y) == attributesInlineCount + (IF y = "p" THEN 1 ELSE 2)

\* A call rec[y] = rec[x].WithAttributes(as...).
WithAttributes(x, y, as) ==
    /\ Len(expect[x]) + Len(SelectSeq(as, Valid)) <= LoggerMaxLen(y)
    /\ \E spare \in Spares(LoggerGrows(rec[x], as)) :
          LET used == Roots(rec, attrs)
              call == CallerSlice(heap, used, as)
              res == withAttributes(call.heap, used \cup {call.slice.ptr}, rec[x], call.slice, spare)
              kept == Compact(res.heap, [rec EXCEPT ![y] = res.l])
          IN  /\ rec' = kept.rec
              /\ heap' = kept.heap
    /\ expect' = [expect EXCEPT ![y] = expect[x] \o SelectSeq(as, Valid)]
    /\ last' = [op |-> "WithAttributes", x |-> y, replaced |-> 0]
    /\ visited' = <<>>
    /\ UNCHANGED <<cloned, attrs, varsVal>>

\* A call rec[x].Emit(ctx, r).
Emit(x, r) ==
    /\ op' = "Emit"
    /\ given' = <<x, r>>
    /\ out' = emit(heap, rec[x], r)
    /\ UNCHANGED <<val, ctor, other, pair>>
    /\ UNCHANGED varsRec

\* The logger WithAttributes returned last is the one that emits.
NextLogger ==
    \/ op = "none" /\ \E d \in Derivations : \E as \in LoggerArgs(d[2]) :
          WithAttributes(d[1], d[2], as)
    \/ op = "none" /\ \E r \in Records : Emit(last.x, r)

SpecLogger == InitLogger /\ [][NextLogger]_vars

(***************************************************************************)
(* Properties.                                                             *)
(***************************************************************************)
\* What a reader of record y observes: its length and the attributes a full walk yields.
Observed(y) == <<AttributesLen(rec[y]), WalkAttributes(heap, rec[y], NeverStop)>>

\* The stored attributes: the used inline slots, then the overflow.
Attributes(h, r) == SubSeq(r.front, 1, r.nFront) \o Elems(h, r.back)

Other(x) == IF x = "r" THEN "c" ELSE "r"

Min(a, b) == IF a < b THEN a ELSE b

\* The prefix of s up to and including the first element on which visitor f returns false.
UpToFirstStop(s, f) ==
    LET stops == {i \in 1..Len(s) : ~Visit(f, s[i])}
    IN  IF stops = {} THEN s
        ELSE SubSeq(s, 1, CHOOSE i \in stops : \A j \in stops : i <= j)

\* C1: once c := r.Clone() exists, no AddAttributes or SetAttributes call on r
\* changes the length or the walked attributes of c, and no such call on c
\* changes those of r.
C1_CloneIndependent ==
    [][\A x \in {"r", "c"} :
          (cloned /\ last'.x = x
                  /\ last'.op \in {"AddAttributes", "SetAttributes"})
             => Observed(Other(x))' = Observed(Other(x))]_vars

\* C1 witness: r was cloned while it held six attributes (one in the overflow),
\* then r was changed and c got an attribute of its own.
C1_Witness ==
    /\ cloned
    /\ last.op = "AddAttributes" /\ last.x = "c"
    /\ expect["c"] = [i \in 1..7 |-> IF i <= 6 THEN PoolSeq[1] ELSE PoolSeq[2]]
    /\ expect["r"] # [i \in 1..6 |-> PoolSeq[1]]
    /\ Observed("r") = <<Len(expect["r"]), expect["r"]>>
    /\ Observed("c") = <<7, expect["c"]>>

\* C2: a walk whose visitor never stops visits exactly the attributes of the
\* last SetAttributes followed by those of every later AddAttributes, in
\* argument order, each once.
C2_WalkInsertionOrder == WalkAttributes(heap, rec["r"], NeverStop) = expect["r"]

\* C2 witness: after AddAttributes the record holds eight attributes, five
\* inline and three in the overflow, and not all the same.
C2_Witness ==
    /\ last.op = "AddAttributes"
    /\ rec["r"].nFront = 5 /\ rec["r"].back.len = 3
    /\ \E i, j \in 1..8 : expect["r"][i] # expect["r"][j]
    /\ WalkAttributes(heap, rec["r"], NeverStop) = expect["r"]

C4_SetReplaces ==
    last.op = "SetAttributes" =>
        /\ AttributesLen(rec["r"]) = Len(expect["r"])
        /\ WalkAttributes(heap, rec["r"], NeverStop) = expect["r"]

\* C4 witness: SetAttributes with two attributes on a record that held eight.
C4_Witness ==
    /\ last.op = "SetAttributes" /\ last.replaced = 8
    /\ Len(expect["r"]) = 2 /\ AttributesLen(rec["r"]) = 2

\* C5: every unused inline slot front[i], i >= nFront, holds the zero KeyValue.
C5_UnusedSlotsZero ==
    \A i \in 1..attributesInlineCount : i > rec["r"].nFront => rec["r"].front[i] = ZeroKeyValue

C7_LimitRespected ==
    AttributeCountLimit(rec["r"]) >= 0 => AttributesLen(rec["r"]) <= AttributeCountLimit(rec["r"])

\* C8: when the caller overwrites an element of the slice it passed to
\* SetAttributes, the attributes a walk of the record yields stay the same.
C8_SetCopiesCallerSlice ==
    [][\A i \in 1..MaxArgs, kv \in Pool :
          (last'.op = "CallerOverwrite" /\ CallerOverwrite(i, kv)) =>
          WalkAttributes(heap', rec'["r"], NeverStop) = WalkAttributes(heap, rec["r"], NeverStop)]_vars

\* C8 witness: the caller overwrote an element of its slice that SetAttributes
\* had put into the overflow, and the record still holds the old attribute.
C8_Witness ==
    /\ last.op = "CallerOverwrite"
    /\ attrs.len = AttributesLen(rec["r"]) /\ rec["r"].back.len > 0
    /\ Elems(heap, attrs)[attrs.len] # Elems(heap, rec["r"].back)[rec["r"].back.len]

\* C9: a walk calls the visitor on the attributes in order up to and
\* including the first on which it returns false and not after; a stop in an
\* inline slot leaves the overflow unvisited; the walk changes no record.
C9_WalkStops ==
    [][\A f \in Visitors : Walk("r", f) =>
          /\ visited' = UpToFirstStop(Attributes(heap, rec["r"]), f)
          /\ (\E i \in 1..rec["r"].nFront : ~Visit(f, rec["r"].front[i]))
                 => Len(visited') <= rec["r"].nFront
          /\ rec' = rec /\ heap' = heap]_vars

\* C9 witness: a walk of a record with a non-empty overflow that was stopped
\* in an inline slot.
C9_Witness ==
    /\ visited # <<>> /\ Len(visited) < rec["r"].nFront
    /\ rec["r"].back.len > 0

\* Whether w is a Group with zero members, by its accessors.
IsGroupWithoutMembers(w) == Kind(w) = KindGroup /\ Len(Value_Group(w).ret) = 0

\* Whether no Group in v, at any depth, has a member that is a Group with zero members.
RECURSIVE NoEmptyGroupMember(_)
NoEmptyGroupMember(v) ==
    CASE Kind(v) = KindGroup ->
            \A i \in 1..Len(Value_Group(v).ret) :
                /\ ~IsGroupWithoutMembers(Value_Group(v).ret[i].Value)
                /\ NoEmptyGroupMember(Value_Group(v).ret[i].Value)
      [] Kind(v) = KindList ->
            \A i \in 1..v.num : NoEmptyGroupMember(v.any.val[i])
      [] OTHER -> TRUE

\* C10: no member of a Group that GroupValue returned, nor of a Group nested
\* in it, is a Group with zero members.
C10_NoEmptyGroupMember == NoEmptyGroupMember(val)

\* C10 witness: GroupValue was given an empty Group and then another member
\* and returned a Group of the other member alone.
C10_Witness ==
    /\ Kind(val) = KindGroup
    /\ Len(given) = 2
    /\ IsGroupWithoutMembers(given[1].Value)
    /\ Value_Group(val) = Return(<<given[2]>>)

\* The kind of the Values a constructor returns.
KindOf(c) ==
    CASE c = "BoolValue" -> KindBool
      [] c \in {"Int64Value", "IntValue"} -> KindInt64
      [] c = "Uint64Value" -> KindUint64
      [] c = "Float64Value" -> KindFloat64
      [] c = "StringValue" -> KindString
      [] c = "BytesValue" -> KindBytes
      [] c = "ListValue" -> KindList
      [] c = "GroupValue" -> KindGroup
      [] OTHER -> KindEmpty

NotEmptyGroup(m) == ~IsGroupWithoutMembers(m.Value)

\* C11: the Group accessor of GroupValue(m1..mn) yields exactly the members
\* whose values are not Groups without members, in their order and unchanged;
\* the members of TestEmptyGroup read back as a=1 and g3=[g4=[b=2]].
C11_GroupKeepsOtherMembers ==
    (ctor = "GroupValue" /\ op = "Group") =>
        /\ ~out.panic
        /\ out.ret = SelectSeq(given, NotEmptyGroup)
        /\ given = TestEmptyGroup =>
              out.ret = <<IntKeyValue("a", 1),
                          Group("g3", <<Group("g4", <<IntKeyValue("b", 2)>>)>>)>>

\* C11 witness: the Group accessor was called on the Group built from the
\* members of TestEmptyGroup and yielded two of the three.
C11_Witness ==
    /\ ctor = "GroupValue" /\ op = "Group"
    /\ given = TestEmptyGroup
    /\ Len(out.ret) = 2 /\ out.ret[1] = given[1] /\ out.ret[2] = given[3]

\* C12: Kind() of what a constructor returned is the constructor's kind, the
\* zero Value has kind Empty, and Empty() is true of the zero Value and of
\* nothing a constructor returned.
C12_ConstructorKind ==
    /\ op = "Kind" => out = Return(KindOf(ctor))
    /\ op = "Empty" => out = Return(ctor = "Value{}")
    /\ op = "Empty" => (out.ret <=> Kind(val) = KindEmpty)

\* C12 witness: Kind() was called on Uint64Value(1), whose stored number is
\* that of BoolValue(true) and Int64Value(1).
C12_Witness ==
    /\ ctor = "Uint64Value" /\ op = "Kind"
    /\ val.num = BoolValue(TRUE).num /\ val.num = Int64Value(1).num
    /\ out.ret = KindUint64

\* The kind of the Values an accessor is for.
AccessorKind(name) ==
    CASE name = "Bool" -> KindBool
      [] name = "Int64" -> KindInt64
      [] name = "Uint64" -> KindUint64
      [] name = "Float64" -> KindFloat64
      [] name = "Bytes" -> KindBytes
      [] name = "List" -> KindList
      [] name = "Group" -> KindGroup

Accessors == {"Bool", "Int64", "Uint64", "Float64", "Bytes", "List", "Group"}

\* C13: an accessor called on a Value of another kind than its own panics.
C13_AccessorPanics ==
    (op \in Accessors /\ Kind(val) # AccessorKind(op)) => out.panic

\* C13 witness: Bool() was called on the zero Value and panicked.
C13_Witness ==
    /\ op = "Bool" /\ ctor = "Value{}" /\ Kind(val) = KindEmpty
    /\ out.panic

\* C14: String() does not panic, whatever the kind of the Value and of the
\* Values nested in it, and of StringValue(s) it returns s.
C14_StringNeverFails ==
    op = "String" =>
        /\ ~out.panic
        /\ ctor = "StringValue" => out.ret = given[1]

\* C14 witness: String() returned for a Group that holds Groups nested three
\* deep.
C14_Witness ==
    /\ op = "String" /\ ctor = "GroupValue"
    /\ given = TestEmptyGroup
    /\ ~out.panic

\* The decimal texts of 0, 1, 2, ...
Decimals ==
    <<"0", "1", "2", "3", "4", "5", "6", "7", "8", "9", "10", "11", "12", "13", "14", "15",
      "16", "17", "18", "19", "20", "21", "22", "23", "24", "25", "26", "27", "28", "29",
      "30", "31", "32", "33", "34", "35", "36", "37", "38", "39", "40", "41", "42", "43",
      "44", "45", "46", "47", "48", "49", "50", "51", "52", "53", "54", "55", "56", "57",
      "58", "59", "60", "61", "62", "63", "64">>

Decimal(i) == IF i < 0 THEN "-" \o Decimals[1 - i] ELSE Decimals[i + 1]

\* The texts between brackets, separated by single spaces.
RECURSIVE Spaced(_)
Spaced(texts) ==
    IF Len(texts) = 0 THEN ""
    ELSE IF Len(texts) = 1 THEN texts[1]
    ELSE Spaced(SubSeq(texts, 1, Len(texts) - 1)) \o " " \o texts[Len(texts)]

Bracketed(texts) == "[" \o Spaced(texts) \o "]"

\* C15: String() of a Value that is not a String is the decimal text of an
\* Int64 or Uint64, true or false for a Bool, <nil> for the zero Value, and
\* for Bytes, List and Group the bracketed, space-separated texts of the
\* elements, a Group member as key=value.
C15_StringFormat ==
    op = "String" =>
        /\ ctor \in {"Int64Value", "IntValue", "Uint64Value"} => out.ret = Decimal(given[1])
        /\ ctor = "BoolValue" => out.ret = (IF given[1] THEN "true" ELSE "false")
        /\ ctor = "Value{}" => out.ret = "<nil>"
        /\ ctor = "BytesValue" =>
              /\ out.ret = Bracketed([i \in 1..Len(given[1]) |-> Decimal(given[1][i])])
              /\ given[1] = <<2, 4, 6>> => out.ret = "[2 4 6]"
        /\ ctor = "ListValue" =>
              out.ret = Bracketed([i \in 1..Len(given) |-> Value_String(given[i].Value).ret])
        /\ ctor = "GroupValue" =>
              /\ out.ret = Bracketed([i \in 1..Len(Value_Group(val).ret) |->
                               Value_Group(val).ret[i].Key \o "="
                                  \o Value_String(Value_Group(val).ret[i].Value).ret])
              /\ given = TestValueString => out.ret = "[a=1 b=true]"
              /\ given = TestEmptyGroup => out.ret = "[a=1 g3=[g4=[b=2]]]"
              /\ given = TestValueEqual => out.ret = "[b=true i=3 b=[3 5 7]]"
        /\ (ctor = "Int64Value" /\ given[1] = -3) => out.ret = "-3"

\* C15 witness: String() of Group(Int(a,1), Bool(b,true)) returned [a=1 b=true].
C15_Witness ==
    /\ op = "String" /\ ctor = "GroupValue"
    /\ given = TestValueString
    /\ out.ret = "[a=1 b=true]"

\* C16: Equal is false of two Values of different kinds, and true of two
\* Values of kind Empty.
C16_DifferentKindsUnequal ==
    op = "Equal" =>
        /\ Kind(val) # Kind(other) => out.ret = FALSE
        /\ (Kind(val) = KindEmpty /\ Kind(other) = KindEmpty) => out.ret = TRUE

\* C16 witness: Int64Value(1) was compared with Uint64Value(1), which stores
\* the same number, and Equal returned false.
C16_Witness ==
    /\ op = "Equal" /\ ctor = "Int64Value"
    /\ Kind(other) = KindUint64 /\ val.num = other.num
    /\ out.ret = FALSE

\* C17: v.Equal(v) is true, and v.Equal(w) is w.Equal(v).
C17_EqualReflexiveSymmetric ==
    op = "Equal" =>
        /\ other = val => out.ret = TRUE
        /\ out.ret = Equal(other, val)

\* C18: two Float64 Values are Equal exactly when the bit patterns they
\* store are the same.
C18_FloatEqualBitExact ==
    (op = "Equal" /\ Kind(val) = KindFloat64 /\ Kind(other) = KindFloat64) =>
        (out.ret <=> Value_Float64(val).ret = Value_Float64(other).ret)

\* C19: Equal of two Strings or two Bytes is whether their contents are the
\* same; of two Lists, whether they have the same length and the elements
\* are Equal position by position; of two Groups, the same with members
\* that have equal keys and Equal values.
C19_EqualWithinKind ==
    (op = "Equal" /\ Kind(val) = Kind(other)) =>
        /\ Kind(val) = KindString =>
              (out.ret <=> Value_String(val).ret = Value_String(other).ret)
        /\ Kind(val) = KindBytes =>
              (out.ret <=> Value_Bytes(val).ret = Value_Bytes(other).ret)
        /\ Kind(val) = KindList =>
              (out.ret <=>
                  /\ Len(Value_List(val).ret) = Len(Value_List(other).ret)
                  /\ \A i \in 1..Len(Value_List(val).ret) :
                        Equal(Value_List(val).ret[i], Value_List(other).ret[i]))
        /\ Kind(val) = KindGroup =>
              (out.ret <=>
                  /\ Len(Value_Group(val).ret) = Len(Value_Group(other).ret)
                  /\ \A i \in 1..Len(Value_Group(val).ret) :
                        /\ Value_Group(val).ret[i].Key = Value_Group(other).ret[i].Key
                        /\ Equal(Value_Group(val).ret[i].Value,
                                 Value_Group(other).ret[i].Value))

\* C19 witness: a List of two elements was compared with the List of the same
\* elements in the other order, and Equal returned false.
C19_Witness ==
    /\ op = "Equal" /\ ctor = "ListValue" /\ Kind(other) = KindList
    /\ Len(Value_List(val).ret) = 2 /\ Len(Value_List(other).ret) = 2
    /\ Value_List(val).ret[1] = Value_List(other).ret[2]
    /\ Value_List(val).ret[2] = Value_List(other).ret[1]
    /\ out.ret = FALSE

\* C20: Invalid() of a KeyValue is whether its key is empty or its value is
\* of kind Empty; a KeyValue that is Invalid is built, kept by GroupValue and
\* stored by AddAttributes like any other.
C20_InvalidIffEmpty ==
    /\ op = "Invalid" =>
          /\ pair.Value = val
          /\ out = Return(pair.Key = "" \/ KindOf(ctor) = KindEmpty)
    /\ (ctor = "GroupValue" /\ op = "Group") =>
          \A i \in 1..Len(given) :
              ((given[i].Key = "" \/ Kind(given[i].Value) = KindEmpty)
                  /\ NotEmptyGroup(given[i]))
                 => \E j \in 1..Len(out.ret) : out.ret[j] = given[i]
    /\ last.op = "AddAttributes" => Attributes(heap, rec["r"]) = expect["r"]

\* C20 witness: Invalid() was called on a KeyValue with a key and an empty
\* Group as its value, and returned false.
C20_Witness ==
    /\ op = "Invalid" /\ ctor = "GroupValue"
    /\ pair.Key # "" /\ IsGroupWithoutMembers(pair.Value)
    /\ out.ret = FALSE

\* The typed accessor that reads what a constructor stored (String() for a
\* String), and the dynamic type of what Any() returns for it.
AccessorOf(c) ==
    CASE c = "BoolValue" -> "Bool"
      [] c \in {"Int64Value", "IntValue"} -> "Int64"
      [] c = "Uint64Value" -> "Uint64"
      [] c = "Float64Value" -> "Float64"
      [] c = "StringValue" -> "String"
      [] c = "BytesValue" -> "Bytes"
      [] c = "ListValue" -> "List"
      [] c = "GroupValue" -> "Group"
      [] OTHER -> "none"

PlainType(c) ==
    CASE c = "BoolValue" -> "bool"
      [] c \in {"Int64Value", "IntValue"} -> "int64"
      [] c = "Uint64Value" -> "uint64"
      [] c = "Float64Value" -> "float64"
      [] c = "StringValue" -> "string"
      [] c = "BytesValue" -> "[]byte"
      [] c = "ListValue" -> "[]Value"
      [] c = "GroupValue" -> "[]KeyValue"
      [] OTHER -> "nil"

\* The argument of the constructor call: the one argument of a scalar
\* constructor, the variadic arguments of ListValue and GroupValue.
Argument ==
    CASE ctor = "GroupValue" -> given
      [] ctor = "ListValue" -> [i \in 1..Len(given) |-> given[i].Value]
      [] ctor = "Value{}" -> <<>>
      [] OTHER -> given[1]

\* C21 as stated: the typed accessor of the constructor's kind returns the
\* constructor's argument, Any() returns the argument boxed in the plain type
\* of the kind, and Any() of the zero Value is nil; Group included.
C21_ReadBackArgument ==
    /\ (op # "none" /\ op = AccessorOf(ctor)) => out = Return(Argument)
    /\ op = "Any" => out = Return([type |-> PlainType(ctor), val |-> Argument])

\* C21 amended: as stated for every constructor but GroupValue; of a Group,
\* the accessor and Any() return the arguments whose values are not Groups
\* without members, which are all the arguments when none is such a Group.
C21_ReadBackNormalized ==
    LET kept == IF ctor = "GroupValue" THEN SelectSeq(given, NotEmptyGroup)
                ELSE Argument
    IN  /\ (op # "none" /\ op = AccessorOf(ctor)) => out = Return(kept)
        /\ op = "Any" => out = Return([type |-> PlainType(ctor), val |-> kept])
        /\ (op = "Any" /\ ctor = "Value{}") => out.ret = [type |-> "nil", val |-> <<>>]

\* C21 witness: Any() of Int64Value of a negative number returned that
\* number as an int64, from a stored number that is not negative.
C21_Witness ==
    /\ ctor = "Int64Value" /\ op = "Any"
    /\ given[1] < 0 /\ val.num > 0
    /\ out.ret = [type |-> "int64", val |-> given[1]]

\* The slog kinds and logr types with an attribute constructor of their own,
\* and the Type() of what the constructor returns.
DirectType(t) ==
    CASE t \in {"KindBool", "bool"} -> "BOOL"
      [] t \in {"KindInt64", "KindUint64", "KindDuration", "KindTime", "int"} -> "INT64"
      [] t \in {"KindFloat64", "float64"} -> "FLOAT64"
      [] t \in {"KindString", "string"} -> "STRING"
      [] OTHER -> "none"

\* The native value a bridge function was called with, and the
\* attribute.Value it returned.
Native == IF op = "convertKV" THEN given[2]
          ELSE IF op = "convertAttr" THEN given[1].Value ELSE given[1]

Converted == IF op = "convertValue" THEN out.ret ELSE out.ret.Value

\* C22: a bridge function never panics: it returns the attribute of the
\* matching type for a boolean, an integer, a float and a string, and a
\* STRING attribute for every other native value.
C22_BridgeFallsBackToString ==
    op \in {"convertValue", "convertAttr", "convertKV"} =>
        /\ ~out.panic
        /\ Converted.type =
              (IF DirectType(Native.type) = "none" THEN "STRING"
               ELSE DirectType(Native.type))

\* C24: a record whose inline slots are all used has attributes in back.
C24_FullFrontHasBack ==
    \A x \in {"r", "c"} :
        rec[x].nFront = Len(rec[x].front) => rec[x].back.len > 0

\* C25: after any AddAttributes, SetAttributes and Clone calls, nFront is
\* between 0 and the number of inline slots, back holds attributes only when
\* all inline slots are used, and walking the record yields the attributes
\* in the order they were given.
C25_BackOnlyWhenFrontFull ==
    \A x \in {"r", "c"} :
        /\ rec[x].nFront \in 0..attributesInlineCount
        /\ rec[x].back.len > 0 => rec[x].nFront = attributesInlineCount
        /\ WalkAttributes(heap, rec[x], NeverStop) = expect[x]

\* C25 witness: the clone holds attributes in back, and the record it was
\* cloned from has since been set to fewer attributes than inline slots.
C25_Witness ==
    /\ cloned
    /\ rec["c"].back.len > 0 /\ rec["c"].nFront = attributesInlineCount
    /\ rec["r"].nFront \in 1..(attributesInlineCount - 1) /\ rec["r"].back.len = 0

\* C29: reservoirFunc returns a func that is not nil exactly when the
\* exemplar feature is enabled and OTEL_METRICS_EXEMPLAR_FILTER is not
\* always_off.
C29_NilUnlessEnabledAndNotOff ==
    op = "reservoirFunc" =>
        (out.ret.type # "nil" <=> (given[2] /\ given[3] # "always_off"))

\* C26: the Group built from the members a Group reads back has the same
\* members and is Equal to it, and a Group is Equal to the Group built from
\* its members and one more member that is an empty Group.
C26_FlatteningIdempotent ==
    /\ op = "Regroup" =>
          /\ Value_Group(other).ret = Value_Group(val).ret
          /\ out.ret = TRUE
    /\ op = "GroupValueWithEmptyGroup" =>
          /\ Value_Group(other).ret = Value_Group(val).ret
          /\ out.ret = TRUE

\* What walking logger z yields.
Walked(z) == walkAttributes(heap, rec[z], NeverStop)

\* Whether s is t followed by copies of attribute a only.
FollowedOnlyBy(s, t, a) ==
    /\ Len(s) >= Len(t)
    /\ SubSeq(s, 1, Len(t)) = t
    /\ \A i \in (Len(t) + 1)..Len(s) : s[i] = a

\* C27: a call y = x.WithAttributes(...) leaves what walking every other
\* logger yields as it was, the receiver x included, and walking y yields
\* what walking x yielded before the call followed only by attributes of
\* the call.
C27_WithAttributesKeepsReceiver ==
    [][(last'.op = "WithAttributes" /\ op' = "none") =>
          \A z \in Loggers :
              /\ z # last'.x => Walked(z)' = Walked(z)
              /\ z = last'.x =>
                    \E d \in Derivations :
                        /\ d[2] = z
                        /\ FollowedOnlyBy(Walked(z)', Walked(d[1]), OwnAttr(z))]_vars

\* C27 witness: a and b were both derived from p when p held an attribute
\* in back, and each holds an attribute of its own in back after it.
C27_Witness ==
    /\ rec["p"].back.len = 1
    /\ rec["a"].back.len = 2 /\ rec["b"].back.len = 2
    /\ Walked("a") = Walked("p") \o <<OwnAttr("a")>>
    /\ Walked("b") = Walked("p") \o <<OwnAttr("b")>>

\* The text Emit writes for an attribute of a logger, and for a record and
\* attributes.
OwnText(a) ==
    CASE a.Key = "p" -> "p=x"
      [] a.Key = "a" -> "a=-3"
      [] a.Key = "b" -> "b=true"

ExpectedLine(r, kvs) ==
    (IF r.Timestamp.IsZero THEN "" ELSE "timestamp=595728000 ")
        \o "severity=9 body=log message"
        \o (IF kvs = <<>> THEN "" ELSE " " \o Spaced([i \in 1..Len(kvs) |-> OwnText(kvs[i])]))
        \o "\n"

\* C28: walking the logger a WithAttributes call returned yields what
\* walking the receiver yielded followed by the valid attributes of the call
\* in their order; the attributes that are not valid take no inline slot and
\* no element of back; and Emit writes the attributes in that order.
C28_WithAttributesAppendsValid ==
    /\ \A x \in Loggers :
          /\ Walked(x) = expect[x]
          /\ \A i \in 1..Len(Walked(x)) :
                Walked(x)[i].Key # "" /\ Walked(x)[i].Value.type # "INVALID"
          /\ rec[x].nFront = Min(Len(expect[x]), attributesInlineCount)
          /\ rec[x].back.len = Len(expect[x]) - rec[x].nFront
    /\ op = "Emit" => out = Return(ExpectedLine(given[2], expect[given[1]]))

\* C28 witness: a was derived from p, which held four attributes, by a call
\* with a valid attribute, one without a key and another valid one: the
\* first took the last inline slot, the last went to back, and Emit wrote
\* the six.
C28_Witness ==
    /\ op = "Emit" /\ given[1] = "a"
    /\ rec["a"].nFront = attributesInlineCount /\ rec["a"].back.len = 1
    /\ expect["a"] = [i \in 1..6 |-> IF i <= 4 THEN OwnAttr("p") ELSE OwnAttr("a")]
    /\ out.ret = "timestamp=595728000 severity=9 body=log message p=x p=x p=x p=x a=-3 a=-3\n"

====
